---------------------------- MODULE Spec2Model ----------------------------
(***************************************************************************)
(* A model of the orchestration core of ai-hedge-fund-with-gui:            *)
(*   - RateLimiter.wait_if_needed          (src/src/utils/llm.py)          *)
(*   - call_llm and its helpers            (src/src/utils/llm.py)          *)
(*   - create_graph / run_graph            (src/app/backend/services/      *)
(*                                          graph.py)                      *)
(*   - the analyst nodes' result merge     (src/src/agents/*.py)           *)
(*                                                                         *)
(* Time is counted in ticks of half a second, the smallest delay of the    *)
(* code (min_delay = 0.5): Sec(n) is n seconds.                            *)
(***************************************************************************)
EXTENDS Integers, Sequences, FiniteSets, TLC

VARIABLES
    \* ---- process-wide rate limiter (_rate_limiter) and the wall clock
    clock,            \* time.time(), in ticks
    last_call_time,   \* RateLimiter.last_call_time : dict str -> time
    call_count,       \* RateLimiter.call_count     : dict str -> int
    lock,             \* RateLimiter.lock : the thread holding it, or NoThread
    frame,            \* per thread: the frame of its wait_if_needed call
    rl_cfg,           \* the scenario: which calls are made, until when
    \* ---- one call_llm invocation
    llm_cfg,          \* the arguments and collaborators of the invocation
    llm_pc,           \* position in call_llm
    attempt,          \* the loop variable of `for attempt in range(max_retries)`
    ret,              \* the value returned (NoValue until it returns)
    raised,           \* TRUE when an exception left call_llm
    ops,              \* the calls call_llm has made so far, in order
    \* ---- create_graph
    request,          \* the caller's selected_agents argument
    g_pc,             \* position in create_graph
    selected_agents,  \* the local selected_agents after the filter
    nodes,            \* graph.nodes
    edges,            \* graph.edges
    \* ---- one run of a compiled graph
    run_cfg,          \* the run's inputs
    node_state,       \* per node: "pending", "running" or "done"
    analyst_signals,  \* state["data"]["analyst_signals"]
    produced,         \* per task node: the analysis it computed, and the
                      \* tickers whose call failed in every attempt
    remote_calls,     \* per task node: the llm.invoke calls it issued
    governor_calls,   \* per task node: the wait_if_needed calls it issued
    \* ---- one call of a function of tools/api.py
    api_cfg,          \* the function called, its arguments and the upstream
    api_pc,           \* position in the function
    api_attempt,      \* the loop variable of _make_api_request
    api_ret,          \* the value returned or the exception raised
    api_log           \* the requests sent and the waits made, in order

rlVars  == <<clock, last_call_time, call_count, lock, frame, rl_cfg>>
llmVars == <<llm_cfg, llm_pc, attempt, ret, raised, ops>>
gVars   == <<request, g_pc, selected_agents, nodes, edges>>
runVars == <<run_cfg, node_state, analyst_signals, produced, remote_calls,
             governor_calls>>
apiVars == <<api_cfg, api_pc, api_attempt, api_ret, api_log>>
vars    == <<rlVars, llmVars, gVars, runVars, apiVars>>

(***************************************************************************)
(* Bounds of the model.                                                    *)
(***************************************************************************)
MaxTime    == 126   \* ticks explored after StartTime in the long scenario
MaxShort   == 3     \* ticks explored in the concurrent scenario
MaxBurst   == 52    \* ticks in which calls arrive in the burst scenario
StartTime  == 300   \* the clock when the process starts (an epoch time)

Sec(n) == 2 * n

(***************************************************************************)
(* Python dicts: a function whose domain is the set of keys present.       *)
(***************************************************************************)
EmptyDict == [k \in {} |-> 0]

Get(d, k, dflt) == IF k \in DOMAIN d THEN d[k] ELSE dflt

Put(d, k, v) == [x \in (DOMAIN d) \cup {k} |-> IF x = k THEN v ELSE d[x]]

Min(a, b) == IF a < b THEN a ELSE b

\* a variable that holds nothing yet
NoValue == [kind |-> "none"]

(***************************************************************************)
(* RateLimiter.wait_if_needed                                              *)
(***************************************************************************)
NoThread == 0

\* str.upper() on the provider names that occur
Upper(s) ==
    CASE s = "Google" -> "GOOGLE"
      [] s = "OpenAI" -> "OPENAI"
      [] OTHER -> s

\* a test that limits every provider (the fault C21 must notice)
IsLimitedAll(provider) == TRUE

\* line 21: the providers that are rate limited
IsLimited(provider) == Upper(provider) = "GOOGLE"

\* line 26: key = f"{model_provider}_{model_name}"
Key(provider, model) == provider \o "_" \o model

\* f"{key}_reset"
ResetKey(key) == key \o "_reset"

\* the safety threshold of line 34 and the window of lines 29, 36, 37
Threshold == 9
Window == Sec(60)
WindowBuffer == Sec(1)

\* the limiter's two dicts as one value
Limiter(lct, cc) == [last_call_time |-> lct, call_count |-> cc]

\* a reset for new keys only (the fault C19 must notice)
ResetCountersNewKeyOnly(L, key, now) ==
    IF key \notin DOMAIN L.last_call_time
    THEN Limiter(Put(L.last_call_time, ResetKey(key), now),
                 Put(L.call_count, key, 0))
    ELSE L

\* lines 29-31: reset the counters every minute
ResetCounters(L, key, now) ==
    IF key \notin DOMAIN L.last_call_time
       \/ (now - Get(L.last_call_time, ResetKey(key), 0)) > Window
    THEN Limiter(Put(L.last_call_time, ResetKey(key), now),
                 Put(L.call_count, key, 0))
    ELSE L

\* lines 34-37: the sleep of a call that finds the counter at the threshold
\* (0: no sleep)
WindowSleep(L, key, now) ==
    IF Get(L.call_count, key, 0) >= Threshold
    THEN LET time_since_reset == now - Get(L.last_call_time, ResetKey(key), 0)
         IN  IF time_since_reset < Window
             THEN Window - time_since_reset + WindowBuffer
             ELSE 0
    ELSE 0

\* lines 41-42: reset counters after waiting; t is time.time() after the sleep
AfterWindowSleep(L, key, t) ==
    Limiter(Put(L.last_call_time, ResetKey(key), t),
            Put(L.call_count, key, 0))

\* lines 50-55, in ticks
MinDelay(current_count) ==
    IF current_count >= 6 THEN Sec(6)
    ELSE IF current_count >= 3 THEN Sec(2)
    ELSE 1

\* no spacing at all (the fault C20 must notice)
SpacingSleepNone(L, key, now) == 0

\* lines 47-60: the spacing sleep (0: no sleep); now is the value read at
\* line 25, also when a window sleep came in between
SpacingSleep(L, key, now) ==
    LET current_count == Get(L.call_count, key, 0)
    IN  IF current_count > 0 /\ key \in DOMAIN L.last_call_time
        THEN LET time_since_last == now - L.last_call_time[key]
             IN  IF time_since_last < MinDelay(current_count)
                 THEN MinDelay(current_count) - time_since_last
                 ELSE 0
        ELSE 0

\* an update that forgets the counter (the fault C18 must notice)
UpdateTrackingNoCount(L, key, t) ==
    Limiter(Put(L.last_call_time, key, t),
            Put(L.call_count, key, Get(L.call_count, key, 0)))

\* lines 66-67: update tracking; t is time.time() at line 67
UpdateTracking(L, key, t) ==
    Limiter(Put(L.last_call_time, key, t),
            Put(L.call_count, key, Get(L.call_count, key, 0) + 1))

\* The whole of wait_if_needed run by one caller with nobody else around:
\* the limiter and the clock when it returns.
wait_if_needed(L, provider, model, now) ==
    IF ~IsLimited(provider)
    THEN [limiter |-> L, clock |-> now]
    ELSE LET key == Key(provider, model)
             L1  == ResetCounters(L, key, now)
             ws  == WindowSleep(L1, key, now)
             L2  == IF ws > 0 THEN AfterWindowSleep(L1, key, now + ws) ELSE L1
             ss  == SpacingSleep(L2, key, now)
         IN  [limiter |-> UpdateTracking(L2, key, now + ws + ss),
              clock   |-> now + ws + ss]

(***************************************************************************)
(* wait_if_needed with concurrent callers.  A frame is the state of one    *)
(* thread's call: pc is "idle" (no call yet), "lock" (blocked at `with     *)
(* self.lock`), "window_sleep" (line 39), "spacing_sleep" (line 63) or     *)
(* "returned".                                                             *)
(***************************************************************************)
IdleFrame == [pc |-> "idle", provider |-> "", model |-> "", now |-> 0, wake |-> 0]

TheLimiter == Limiter(last_call_time, call_count)

SetLimiter(L) ==
    /\ last_call_time' = L.last_call_time
    /\ call_count' = L.call_count

\* lines 19-24: the call; an unlimited provider returns at once
CallWait(t, provider, model) ==
    /\ frame[t].pc \in {"idle", "returned"}
    /\ <<provider, model>> \in rl_cfg.calls
    /\ clock <= rl_cfg.horizon
    /\ frame' = [frame EXCEPT ![t] =
                    [pc |-> IF IsLimited(provider) THEN "lock" ELSE "returned",
                     provider |-> provider, model |-> model,
                     now |-> 0, wake |-> 0]]
    /\ UNCHANGED <<clock, last_call_time, call_count, lock, rl_cfg>>
    /\ UNCHANGED <<llmVars, gVars, runVars, apiVars>>

\* a lock that excludes nobody (the fault C22 must notice)
CanAcquireAlways(t) == TRUE

\* line 24: `with self.lock` lets a thread in when no thread holds the lock
CanAcquire(t) == lock = NoThread

\* lines 24-63 up to the first sleep, or to the end when nothing sleeps
EnterLock(t) ==
    /\ frame[t].pc = "lock"
    /\ CanAcquire(t)
    /\ LET key == Key(frame[t].provider, frame[t].model)
           now == clock
           L1  == ResetCounters(TheLimiter, key, now)
           ws  == WindowSleep(L1, key, now)
           ss  == SpacingSleep(L1, key, now)
       IN  IF ws > 0
           THEN /\ SetLimiter(L1)
                /\ lock' = t
                /\ frame' = [frame EXCEPT ![t].pc = "window_sleep",
                                          ![t].now = now,
                                          ![t].wake = now + ws]
           ELSE IF ss > 0
           THEN /\ SetLimiter(L1)
                /\ lock' = t
                /\ frame' = [frame EXCEPT ![t].pc = "spacing_sleep",
                                          ![t].now = now,
                                          ![t].wake = now + ss]
           ELSE /\ SetLimiter(UpdateTracking(L1, key, clock))
                /\ lock' = NoThread
                /\ frame' = [frame EXCEPT ![t].pc = "returned",
                                          ![t].now = 0, ![t].wake = 0]
    /\ UNCHANGED <<clock, rl_cfg>>
    /\ UNCHANGED <<llmVars, gVars, runVars, apiVars>>

\* lines 39-63 after the window sleep
WakeWindow(t) ==
    /\ frame[t].pc = "window_sleep"
    /\ lock = t
    /\ clock >= frame[t].wake
    /\ LET key == Key(frame[t].provider, frame[t].model)
           L2  == AfterWindowSleep(TheLimiter, key, clock)
           ss  == SpacingSleep(L2, key, frame[t].now)
       IN  IF ss > 0
           THEN /\ SetLimiter(L2)
                /\ lock' = t
                /\ frame' = [frame EXCEPT ![t].pc = "spacing_sleep",
                                          ![t].wake = clock + ss]
           ELSE /\ SetLimiter(UpdateTracking(L2, key, clock))
                /\ lock' = NoThread
                /\ frame' = [frame EXCEPT ![t].pc = "returned",
                                          ![t].now = 0, ![t].wake = 0]
    /\ UNCHANGED <<clock, rl_cfg>>
    /\ UNCHANGED <<llmVars, gVars, runVars, apiVars>>

\* lines 63-67 after the spacing sleep
WakeSpacing(t) ==
    /\ frame[t].pc = "spacing_sleep"
    /\ lock = t
    /\ clock >= frame[t].wake
    /\ SetLimiter(UpdateTracking(TheLimiter,
                                 Key(frame[t].provider, frame[t].model), clock))
    /\ lock' = NoThread
    /\ frame' = [frame EXCEPT ![t].pc = "returned", ![t].now = 0, ![t].wake = 0]
    /\ UNCHANGED <<clock, rl_cfg>>
    /\ UNCHANGED <<llmVars, gVars, runVars, apiVars>>

Sleepers == {t \in DOMAIN frame : frame[t].pc \in {"window_sleep", "spacing_sleep"}}

\* Time passes: to the end of the sleep while a thread sleeps (time.sleep
\* returns when the delay has passed), one tick otherwise.  The time before
\* the first call is not counted: StartTime is the time of the first call.
Tick ==
    /\ IF Sleepers # {}
       THEN \E t \in Sleepers :
               /\ frame[t].wake > clock
               /\ clock' = frame[t].wake
       ELSE /\ clock < rl_cfg.horizon
            /\ \E t \in DOMAIN frame : frame[t].pc # "idle"
            /\ \A t \in DOMAIN frame : frame[t].pc # "lock"
            /\ clock' = clock + 1
    /\ UNCHANGED <<last_call_time, call_count, lock, frame, rl_cfg>>
    /\ UNCHANGED <<llmVars, gVars, runVars, apiVars>>

\* The scenarios of the rate limiter: one caller of one key over more than
\* a whole window, and concurrent callers of several keys and providers
\* over a short time.
LongScenario ==
    [threads |-> {1},
     calls   |-> {<<"GOOGLE", "gemini">>},
     horizon |-> StartTime + MaxTime]

ShortScenario ==
    [threads |-> {1, 2},
     calls   |-> {<<"GOOGLE", "gemini">>, <<"GOOGLE", "gemini_reset">>,
                  <<"Google", "gemini">>, <<"OPENAI", "gpt-4.1">>},
     horizon |-> StartTime + MaxShort]

\* RateLimiter.__init__ (lines 14-17), at process start
InitLimiter ==
    /\ clock = StartTime
    /\ last_call_time = EmptyDict
    /\ call_count = EmptyDict
    /\ lock = NoThread

InitRL ==
    /\ InitLimiter
    /\ rl_cfg \in {LongScenario, ShortScenario}
    /\ frame = [t \in rl_cfg.threads |-> IdleFrame]

NextRL ==
    \/ \E t \in DOMAIN frame : \E c \in rl_cfg.calls : CallWait(t, c[1], c[2])
    \/ \E t \in DOMAIN frame : EnterLock(t)
    \/ \E t \in DOMAIN frame : WakeWindow(t)
    \/ \E t \in DOMAIN frame : WakeSpacing(t)
    \/ Tick

(***************************************************************************)
(* Values.  A Python value is a record [t, v]: its type and its text, so   *)
(* that values of different types can be compared.  A dict is a function   *)
(* from field names to values; a pydantic model instance is                *)
(* [kind |-> "model", fields |-> dict].                                    *)
(***************************************************************************)
Val(t, v) == [t |-> t, v |-> v]

PyNone == Val("none", "")

Model(fields) == [kind |-> "model", fields |-> fields]

Raise(msg) == [kind |-> "raise", msg |-> msg]

\* class PhilFisherSignal / CharlieMungerSignal(BaseModel): the fields with
\* their annotations; args are the __args__ of a Literal
SignalSchema ==
    << [name |-> "signal", ann |-> "Literal",
        args |-> <<"bullish", "bearish", "neutral">>],
       [name |-> "confidence", ann |-> "float", args |-> <<>>],
       [name |-> "reasoning", ann |-> "str", args |-> <<>>] >>

FieldNames(schema) == {schema[i].name : i \in DOMAIN schema}

SeqToSet(q) == {q[i] : i \in DOMAIN q}

\* pydantic's check of one field value against its annotation
FieldOk(field, val) ==
    CASE field.ann = "Literal" -> val.t = "str" /\ val.v \in SeqToSet(field.args)
      [] field.ann = "float"   -> val.t \in {"float", "int"}
      [] field.ann = "int"     -> val.t = "int"
      [] field.ann = "str"     -> val.t = "str"
      [] field.ann = "dict"    -> val.t = "dict"
      [] OTHER                 -> FALSE

\* the constructor model_class(values...): the instance, or the ValidationError
Construct(schema, values) ==
    IF \A i \in DOMAIN schema :
          /\ schema[i].name \in DOMAIN values
          /\ FieldOk(schema[i], values[schema[i].name])
    THEN Model([n \in FieldNames(schema) |-> values[n]])
    ELSE Raise(<<"validation", "error">>)

\* lines 174-193: create_default_response
DefaultFieldValue(field) ==
    CASE field.ann = "str"   -> Val("str", "Error in analysis, using default")
      [] field.ann = "float" -> Val("float", "0.0")
      [] field.ann = "int"   -> Val("int", "0")
      [] field.ann = "dict"  -> Val("dict", "{}")
      [] OTHER -> IF Len(field.args) > 0
                  THEN Val("str", field.args[1])
                  ELSE PyNone

create_default_response(schema) ==
    Construct(schema,
              [n \in FieldNames(schema) |->
                  DefaultFieldValue(
                      schema[CHOOSE i \in DOMAIN schema : schema[i].name = n])])

\* create_default_signal (phil_fisher.py 597-602) and
\* create_default_charlie_munger_signal (charlie_munger.py 667-672)
default_factory ==
    Construct(SignalSchema,
              [signal     |-> Val("str", "neutral"),
               confidence |-> Val("float", "0.0"),
               reasoning  |-> Val("str", "Error in analysis, defaulting to neutral")])

(***************************************************************************)
(* The provider's answers.  A text answer is a sequence of tokens: plain   *)
(* text, the opening json fence, the closing fence, and a JSON text; a JSON *)
(* text is well formed (doc: the value json.loads gives) or not.           *)
(***************************************************************************)
Txt       == [tok |-> "txt"]
FenceJson == [tok |-> "fence_json"]
Fence     == [tok |-> "fence"]
Doc(d)    == [tok |-> "doc", val |-> d]
BadJson   == [tok |-> "badjson"]

PyDict(d) == [t |-> "dict", items |-> d]
PyList    == [t |-> "list", items |-> EmptyDict]

\* what the stubbed provider answers for a task
StubFields ==
    [signal     |-> Val("str", "bearish"),
     confidence |-> Val("float", "80.0"),
     reasoning  |-> Val("str", "weak margins")]

\* the documents a provider may embed
GoodDoc    == PyDict(StubFields)
BadLiteral == PyDict([StubFields EXCEPT !.signal = Val("str", "hold")])
NoReason   == PyDict([signal |-> Val("str", "bullish"),
                      confidence |-> Val("int", "50")])
EmptyDoc   == PyDict(EmptyDict)

Contents ==
    { <<Txt>>,
      <<Txt, FenceJson, Doc(GoodDoc), Fence, Txt>>,
      <<FenceJson, Doc(GoodDoc), Fence>>,
      <<Txt, FenceJson, Doc(BadLiteral), Fence>>,
      <<FenceJson, Doc(NoReason), Fence>>,
      <<FenceJson, Doc(EmptyDoc), Fence>>,
      <<FenceJson, Doc(PyList), Fence>>,
      <<FenceJson, BadJson, Fence>>,
      <<FenceJson, Doc(GoodDoc)>>,
      <<Fence, Doc(GoodDoc), Fence>> }

\* str.find for a token: the first index, 0 when absent
Find(content, tok) ==
    IF \E i \in DOMAIN content : content[i] = tok
    THEN CHOOSE i \in DOMAIN content :
            content[i] = tok /\ \A j \in 1..(i - 1) : content[j] # tok
    ELSE 0

\* json.loads(json_text.strip()): the value, or PyNone when it raises
JsonLoads(text) ==
    IF Len(text) = 1 /\ text[1].tok = "doc" THEN text[1].val ELSE PyNone

\* lines 196-208: extract_json_from_response; PyNone for None
extract_json_from_response(content) ==
    LET json_start == Find(content, FenceJson)
    IN  IF json_start # 0
        THEN LET json_text == SubSeq(content, json_start + 1, Len(content))
                 json_end  == Find(json_text, Fence)
             IN  IF json_end # 0
                 THEN JsonLoads(SubSeq(json_text, 1, json_end - 1))
                 ELSE PyNone
        ELSE PyNone

\* `if parsed_result:` (line 141)
Truthy(x) == x.t # "none" /\ DOMAIN x.items # {}

\* a constructor that skips validation (the fault C7 must notice)
ConstructFromUnchecked(schema, parsed) ==
    IF parsed.t = "dict" THEN Model(parsed.items)
    ELSE Raise(<<"argument", "after", "**", "must", "be", "a", "mapping">>)

\* line 142: the constructor applied to parsed_result, which must be a mapping
ConstructFrom(schema, parsed) ==
    IF parsed.t = "dict" THEN Construct(schema, parsed.items)
    ELSE Raise(<<"argument", "after", "**", "must", "be", "a", "mapping">>)

\* str(e).lower(), word by word
Lower(w) ==
    CASE w = "Quota" -> "quota"
      [] w = "Rate"  -> "rate"
      [] w = "Limit" -> "limit"
      [] w = "Too"   -> "too"
      [] OTHER -> w

ErrorMessages ==
    { <<"429", "Too", "Many", "Requests">>,
      <<"Quota", "exceeded">>,
      <<"Rate", "limit", "reached">>,
      <<"Connection", "reset">> }

\* line 150: "429" in error_msg or "quota" in error_msg or "rate limit" in error_msg
IsQuotaError(msg) ==
    LET error_msg == [i \in DOMAIN msg |-> Lower(msg[i])]
    IN  \/ \E i \in DOMAIN error_msg : error_msg[i] \in {"429", "quota"}
        \/ \E i \in 1..(Len(error_msg) - 1) :
              error_msg[i] = "rate" /\ error_msg[i + 1] = "limit"

(***************************************************************************)
(* call_llm (lines 74-171).  llm_cfg holds what the invocation is given:   *)
(*   state, agent_name           the arguments the model is resolved from  *)
(*   model_name, model_provider  what lines 99-102 resolve ("" for None)   *)
(*   llm_none      get_model returned None                                 *)
(*   json_mode     `not (model_info and not model_info.has_json_mode())`   *)
(*   has_factory   a default_factory was passed                            *)
(*   max_retries   the retry budget                                        *)
(***************************************************************************)
\* line 79: max_retries: int = 3, the budget of every caller in the agents
DefaultMaxRetries == 3

\* the largest retry budget explored
MaxRetries == 3

\* lines 105-108: fallback to defaults
ModelName(cfg) == IF cfg.model_name = "" THEN "gpt-4.1" ELSE cfg.model_name

ModelProvider(cfg) ==
    IF cfg.model_provider = "" THEN "OPENAI" ELSE cfg.model_provider

\* lines 118-120 and 163-165: the default of the caller, else a basic one
DefaultResponse(cfg) ==
    IF cfg.has_factory THEN default_factory
    ELSE create_default_response(SignalSchema)

\* a None branch that raises (the fault the amended C6 must notice)
OnNoModelFatal(cfg) == Raise(<<"no", "model">>)

\* lines 116-120: no model could be obtained
OnNoModel(cfg) == DefaultResponse(cfg)

\* line 152: progressive backoff, max 60 s
QuotaBackoff(k) == Min(Sec(30) + (k * Sec(10)), Sec(60))

\* line 168: short delay before retry
RetryDelay == Sec(2)

\* What one pass of the loop body does: the class of the provider's answer,
\* whether the function returns or goes on, the value returned, and the
\* time slept.
Pass(class, next, value, sleep) ==
    [class |-> class, next |-> next, value |-> value, sleep |-> sleep]

\* an except clause that gives up at the first exception (the fault C8
\* must notice)
OnExceptionNoRetry(cfg, k, msg, class) ==
    Pass(class, "return", DefaultResponse(cfg), 0)

\* an except clause that lets the exception go (the fault C17 must notice)
OnExceptionReraise(cfg, k, msg, class) ==
    Pass(class, "return", Raise(msg), 0)

\* lines 146-168: the except clause, for an exception with message msg
\* raised in attempt k
OnException(cfg, k, msg, class) ==
    IF IsQuotaError(msg) /\ Upper(ModelProvider(cfg)) = "GOOGLE"
    THEN Pass(class, "continue", NoValue, QuotaBackoff(k))
    ELSE IF k = cfg.max_retries - 1
    THEN Pass(class, "return", DefaultResponse(cfg), 0)
    ELSE Pass(class, "continue", NoValue, RetryDelay)

\* lines 131-168: the loop body of attempt k, given what llm.invoke did
LoopBody(cfg, k, response) ==
    IF response.kind = "exception"
    THEN OnException(cfg, k, response.msg,
                     IF IsQuotaError(response.msg) THEN "quota" ELSE "error")
    ELSE IF ~cfg.json_mode
    THEN LET parsed_result == extract_json_from_response(response.content)
         IN  IF Truthy(parsed_result)
             THEN LET made == ConstructFrom(SignalSchema, parsed_result)
                  IN  IF made.kind = "raise"
                      THEN OnException(cfg, k, made.msg, "badschema")
                      ELSE Pass("ok", "return", made, 0)
             ELSE Pass("noblock", "continue", NoValue, 0)
    ELSE Pass("ok", "return", response.value, 0)

\* what llm.invoke(prompt) may do (line 136)
Responses(cfg) ==
    {[kind |-> "exception", msg |-> m] : m \in ErrorMessages}
    \cup (IF cfg.json_mode
          THEN {[kind |-> "value", value |-> Model(StubFields)]}
          ELSE {[kind |-> "message", content |-> c] : c \in Contents})

Op(op, n, what) == [op |-> op, n |-> n, what |-> what]

\* `return v`, or the exception v leaving call_llm
Return(v) ==
    /\ llm_pc' = "done"
    /\ IF v.kind = "raise"
       THEN raised' = TRUE /\ ret' = NoValue
       ELSE raised' = FALSE /\ ret' = v

(***************************************************************************)
(* The model configuration of a call (llm.py 98-102, 211-237).  The state  *)
(* of the graph is a dict whose "metadata" holds the run's model_name and  *)
(* model_provider and, for runs started by the backend, the request.  A    *)
(* provider is [is_enum, s]: a plain string or a member of the provider    *)
(* enumeration whose .value is s; Python's None is the plain "".           *)
(***************************************************************************)
Str(s) == [is_enum |-> FALSE, s |-> s]

Enum(s) == [is_enum |-> TRUE, s |-> s]

\* call_llm(..., state=None): no state was passed
NoState == [present |-> FALSE]

State(metadata) == [present |-> TRUE, metadata |-> metadata]

NoRequest == [present |-> FALSE]

\* the request of the backend: the run's model and provider, and the models
\* chosen for single agents
Request(model_name, model_provider, agent_models) ==
    [present |-> TRUE, model_name |-> model_name,
     model_provider |-> model_provider, agent_models |-> agent_models]

\* request.get_agent_model_config(agent_name): the agent's own model when
\* the request carries one, the model of the run otherwise
RequestAgentModelConfig(req, agent_name) ==
    IF agent_name \in DOMAIN req.agent_models
    THEN req.agent_models[agent_name]
    ELSE <<req.model_name, req.model_provider>>

\* lines 218-222 and 229-231: state["metadata"].get(key, default)
GlobalConfig(state) ==
    <<Get(state.metadata, "model_name", "gpt-4.1"),
      Get(state.metadata, "model_provider", Str("OPENAI"))>>

\* variant of get_agent_model_config without the branch of lines 218-222
get_agent_model_config_any(state, agent_name) ==
    LET req == Get(state.metadata, "request", NoRequest)
    IN  IF req.present
        THEN LET c == RequestAgentModelConfig(req, agent_name)
             IN  <<c[1], c[2].s>>
        ELSE <<GlobalConfig(state)[1], GlobalConfig(state)[2].s>>

\* lines 211-237; a provider of the enumeration compares and upper-cases
\* as its value, so the provider returned is the string in both branches
get_agent_model_config(state, agent_name) ==
    LET req == Get(state.metadata, "request", NoRequest)
    IN  IF agent_name = "portfolio_manager"
        THEN <<GlobalConfig(state)[1], GlobalConfig(state)[2].s>>
        ELSE IF req.present
        THEN LET c == RequestAgentModelConfig(req, agent_name)
             IN  <<c[1], c[2].s>>
        ELSE <<GlobalConfig(state)[1], GlobalConfig(state)[2].s>>

\* lines 97-102: `if state and agent_name` ("" is agent_name=None)
ResolveConfig(cfg) ==
    IF cfg.state.present /\ cfg.agent_name # ""
    THEN LET c == get_agent_model_config(cfg.state, cfg.agent_name)
         IN  [cfg EXCEPT !.model_name = c[1], !.model_provider = c[2]]
    ELSE cfg

\* lines 98-120: resolve the model, pass the rate limiter, get the model
LlmEnter ==
    /\ llm_pc = "start"
    /\ llm_cfg' = ResolveConfig(llm_cfg)
    /\ LET w == wait_if_needed(TheLimiter, ModelProvider(llm_cfg'),
                               ModelName(llm_cfg'), clock)
       IN  /\ SetLimiter(w.limiter)
           /\ clock' = w.clock
    /\ ops' = Append(ops, Op("acquire", 0, ModelProvider(llm_cfg')))
    /\ IF llm_cfg.llm_none
       THEN Return(OnNoModel(llm_cfg'))
       ELSE llm_pc' = "loop" /\ UNCHANGED <<ret, raised>>
    /\ UNCHANGED <<attempt, lock, frame, rl_cfg>>
    /\ UNCHANGED <<gVars, runVars, apiVars>>

\* lines 130-171: one attempt, up to the next llm.invoke or to the return
LlmAttempt(response) ==
    /\ llm_pc = "loop"
    /\ attempt < llm_cfg.max_retries
    /\ LET r == LoopBody(llm_cfg, attempt, response)
       IN  /\ ops' = ops \o <<Op("invoke", attempt, r.class)>>
                         \o (IF r.sleep > 0 THEN <<Op("sleep", r.sleep, "")>>
                                            ELSE <<>>)
           /\ clock' = clock + r.sleep
           /\ IF r.next = "return"
              THEN Return(r.value) /\ UNCHANGED attempt
              ELSE IF attempt + 1 < llm_cfg.max_retries
              THEN /\ attempt' = attempt + 1
                   /\ UNCHANGED <<llm_pc, ret, raised>>
              ELSE \* line 171, after the loop
                   /\ Return(create_default_response(SignalSchema))
                   /\ UNCHANGED attempt
    /\ UNCHANGED <<llm_cfg, last_call_time, call_count, lock, frame, rl_cfg>>
    /\ UNCHANGED <<gVars, runVars, apiVars>>

\* States the limiter can be in when call_llm is entered: fresh, one call
\* of the key just made, and the key's counter at the threshold in a window
\* that began 40 s ago.
LimiterStates ==
    { Limiter(EmptyDict, EmptyDict),
      Limiter([k \in {"GOOGLE_gemini", "GOOGLE_gemini_reset"} |-> StartTime],
              [k \in {"GOOGLE_gemini"} |-> 1]),
      Limiter([k \in {"GOOGLE_gemini", "GOOGLE_gemini_reset"} |->
                  IF k = "GOOGLE_gemini" THEN StartTime - Sec(10)
                                         ELSE StartTime - Sec(40)],
              [k \in {"GOOGLE_gemini"} |-> Threshold]) }

\* the models a run can be started with: nothing given, Gemini with the
\* provider as a string or as a member of the enumeration, and GPT
GlobalModels ==
    { <<"", Str("")>>, <<"gemini", Str("GOOGLE")>>,
      <<"gemini", Enum("Google")>>, <<"gpt-4.1", Str("OPENAI")>> }

AgentNames == {"", "phil_fisher_agent", "portfolio_manager"}

\* the model a request chooses for single agents
AgentModels ==
    [a \in {"phil_fisher_agent", "portfolio_manager"} |->
        <<"claude", Enum("Anthropic")>>]

\* run_graph lines 104-118 put model_name, model_provider and request into
\* the metadata; a request always names the model and provider of its run.
\* A state built elsewhere may lack the keys.
States ==
    {NoState, State(EmptyDict)}
    \cup { State([k \in {"model_name", "model_provider"} |->
                    IF k = "model_name" THEN g[1] ELSE g[2]])
            : g \in GlobalModels }
    \cup { State([k \in {"model_name", "model_provider", "request"} |->
                    IF k = "model_name" THEN g[1]
                    ELSE IF k = "model_provider" THEN g[2]
                    ELSE Request(g[1], g[2], am)])
            : g \in GlobalModels \ {<<"", Str("")>>},
              am \in {EmptyDict, AgentModels} }

InitLLM ==
    /\ clock = StartTime
    /\ \E L \in LimiterStates :
          last_call_time = L.last_call_time /\ call_count = L.call_count
    /\ lock = NoThread
    /\ frame = EmptyDict
    /\ rl_cfg = NoValue
    /\ \E st \in States, a \in AgentNames, none \in BOOLEAN,
          json \in BOOLEAN, fac \in BOOLEAN,
          n \in DefaultMaxRetries..MaxRetries :
          llm_cfg = [state |-> st, agent_name |-> a,
                     model_name |-> "", model_provider |-> "",
                     llm_none |-> none, json_mode |-> json,
                     has_factory |-> fac, max_retries |-> n]
    /\ llm_pc = "start"
    /\ attempt = 0
    /\ ret = NoValue
    /\ raised = FALSE
    /\ ops = <<>>

NextLLM ==
    \/ LlmEnter
    \/ \E response \in Responses(llm_cfg) : LlmAttempt(response)

(***************************************************************************)
(* create_graph (graph.py 14-71).  A graph is its set of node names and    *)
(* its set of edges <<from, to>>: StateGraph keeps the nodes in a dict     *)
(* keyed by name and the edges in a set.                                   *)
(***************************************************************************)
MaxRequest == 7     \* the longest selected_agents list explored

\* the keys of ANALYST_CONFIG (src/utils/analysts.py), in some fixed order
AnalystOrder ==
    << "ben_graham", "bill_ackman", "cathie_wood", "charlie_munger",
       "michael_burry", "peter_lynch", "phil_fisher" >>

ANALYST_CONFIG == SeqToSet(AnalystOrder)

\* an id that is not registered
UnknownAgent == "no_such_analyst"

END == "__end__"

\* line 23: the node name of an analyst key
NodeName(key) == key \o "_agent"

\* a filter that lets every id through (the fault C12 must notice)
FilterAgentsNone(req) == req

\* line 20: filter out any agents that are not in ANALYST_CONFIG
FilterAgents(req) == SelectSeq(req, LAMBDA a : a \in ANALYST_CONFIG)

\* line 35: up to 6 agents run in parallel
ParallelThreshold == 6

\* a threshold test that excludes the boundary (the fault C10 must notice)
UseParallelStrict(n) == n < 6

UseParallel(n) == n <= ParallelThreshold

\* a fan-out whose nodes are not joined (the fault C15 must notice)
ParallelEdgesNoJoin(sel) ==
    { <<"start_node", NodeName(sel[i])>> : i \in DOMAIN sel }

\* lines 38-41: the edges of the parallel topology
ParallelEdges(sel) ==
    UNION { { <<"start_node", NodeName(sel[i])>>,
              <<NodeName(sel[i]), "risk_management_agent">> } :
            i \in DOMAIN sel }

\* a fan-out where the chain should be (the fault C16 must notice)
SequentialEdgesFan(sel) ==
    UNION { { <<"start_node", NodeName(sel[i])>>,
              <<NodeName(sel[i]), "risk_management_agent">> } :
            i \in DOMAIN sel }

\* lines 45-53: the edges of the sequential topology
SequentialEdges(sel) ==
    { <<"start_node", NodeName(sel[1])>> }
    \cup { <<NodeName(sel[i]), NodeName(sel[i + 1])>> : i \in 1..(Len(sel) - 1) }
    \cup { <<NodeName(sel[Len(sel)]), "risk_management_agent">> }

\* lines 16-28, 56-57: the nodes
GraphNodes(sel) ==
    {"start_node"} \cup { NodeName(sel[i]) : i \in DOMAIN sel }
    \cup {"risk_management_agent", "portfolio_manager"}

\* lines 35-67: the edges
GraphEdges(sel) ==
    (IF UseParallel(Len(sel)) THEN ParallelEdges(sel) ELSE SequentialEdges(sel))
    \cup (IF sel = <<>> THEN { <<"start_node", "risk_management_agent">> }
                        ELSE {})
    \cup { <<"risk_management_agent", "portfolio_manager">>,
           <<"portfolio_manager", END>> }

\* the whole of create_graph
CreateGraph ==
    /\ g_pc = "request"
    /\ g_pc' = "built"
    /\ selected_agents' = FilterAgents(request)
    /\ nodes' = GraphNodes(FilterAgents(request))
    /\ edges' = GraphEdges(FilterAgents(request))
    /\ UNCHANGED request
    /\ UNCHANGED <<rlVars, llmVars, runVars, apiVars>>

\* The caller's list is built one id at a time.  Analysts are
\* interchangeable, so the registered ids enter a list in the order of
\* AnalystOrder or in its reverse; ids may repeat and unknown ids may occur
\* anywhere.
DistinctRegistered(req) == SeqToSet(FilterAgents(req))

NextNewAgents(req) ==
    LET sel == FilterAgents(req)
        k   == Cardinality(DistinctRegistered(req))
        n   == Len(AnalystOrder)
    IN  IF k = 0 THEN {AnalystOrder[1], AnalystOrder[n]}
        ELSE IF k = n THEN {}
        ELSE IF sel[1] = AnalystOrder[1] THEN {AnalystOrder[k + 1]}
        ELSE {AnalystOrder[n - k]}

Select(a) ==
    /\ g_pc = "request"
    /\ Len(request) < MaxRequest
    /\ a \in {UnknownAgent} \cup DistinctRegistered(request)
               \cup NextNewAgents(request)
    /\ request' = Append(request, a)
    /\ UNCHANGED <<g_pc, selected_agents, nodes, edges>>
    /\ UNCHANGED <<rlVars, llmVars, runVars, apiVars>>

InitGraph ==
    /\ request = <<>>
    /\ g_pc = "request"
    /\ selected_agents = <<>>
    /\ nodes = {}
    /\ edges = {}

NextGraph ==
    \/ \E a \in ANALYST_CONFIG \cup {UnknownAgent} : Select(a)
    \/ CreateGraph

(***************************************************************************)
(* One run of a graph (run_graph, graph.py 83-119) over the analyst nodes  *)
(* (phil_fisher_agent, charlie_munger_agent and their like).               *)
(***************************************************************************)
MaxWork == 7        \* the largest number of (task, ticker) pairs of a run

Tickers == <<"AAPL", "MSFT">>

\* call_llm from its entry to its return, for the answers the provider
\* gives attempt by attempt: the value returned, whether every attempt of
\* the budget failed, and the numbers of llm.invoke and wait_if_needed calls
RECURSIVE RetryLoop(_, _, _)
RetryLoop(cfg, k, script) ==
    IF k >= cfg.max_retries
    THEN [value |-> create_default_response(SignalSchema),
          exhausted |-> TRUE, invokes |-> 0]
    ELSE LET r == LoopBody(cfg, k, script[k + 1])
         IN  IF r.next = "return"
             THEN [value |-> r.value,
                   exhausted |-> (r.class # "ok" /\ k = cfg.max_retries - 1),
                   invokes |-> 1]
             ELSE LET rest == RetryLoop(cfg, k + 1, script)
                  IN  [rest EXCEPT !.invokes = rest.invokes + 1]

call_llm(cfg, script) ==
    IF cfg.llm_none
    THEN [value |-> OnNoModel(cfg), exhausted |-> FALSE, invokes |-> 0]
    ELSE RetryLoop(cfg, 0, script)

\* the answers of a provider to the attempts of one call
Repeat(x, n) == [i \in 1..n |-> x]

GoodAnswer(cfg) ==
    IF cfg.json_mode
    THEN [kind |-> "value", value |-> Model(StubFields)]
    ELSE [kind |-> "message",
          content |-> <<Txt, FenceJson, Doc(GoodDoc), Fence, Txt>>]

Exception(msg) == [kind |-> "exception", msg |-> msg]

Scripts(cfg) ==
    { Repeat(GoodAnswer(cfg), cfg.max_retries),
      Repeat(Exception(<<"429", "Too", "Many", "Requests">>), cfg.max_retries),
      Repeat(Exception(<<"Connection", "reset">>), cfg.max_retries) }
    \cup (IF cfg.json_mode THEN {}
          ELSE {Repeat([kind |-> "message", content |-> <<Txt>>],
                       cfg.max_retries)})

\* the models a run may be configured with: gemini has no JSON mode
RunModels ==
    { [model_name |-> "gemini", model_provider |-> "GOOGLE",
       llm_none |-> FALSE, json_mode |-> FALSE, has_factory |-> TRUE,
       max_retries |-> DefaultMaxRetries],
      [model_name |-> "gpt-4.1", model_provider |-> "OPENAI",
       llm_none |-> FALSE, json_mode |-> TRUE, has_factory |-> TRUE,
       max_retries |-> DefaultMaxRetries] }

\* what call_llm returns to a node, over the answers its provider may give
Outcomes == [llm \in RunModels |-> {call_llm(llm, s) : s \in Scripts(llm)}]

RunTaskNodes == {NodeName(selected_agents[i]) : i \in DOMAIN selected_agents}

Aggregators == {"risk_management_agent", "portfolio_manager"}

\* graph.invoke (graph.py 98) has no handler: an exception leaving a node
\* ends the run
Aborted == \E x \in DOMAIN node_state : node_state[x] = "raised"

\* the executor starts a node once every predecessor has completed
Eligible(n) ==
    /\ node_state[n] = "pending"
    /\ ~Aborted
    /\ \A e \in edges : e[2] = n => node_state[e[1]] = "done"

\* phil_fisher.py 152-156, charlie_munger.py 134-138: the entry of a ticker
TickerEntry(output) == output.fields

\* a node that replaces the shared mapping by one holding its own entry
\* only (the fault C3 must notice)
StoreSignalsFresh(signals, node, analysis) == Put(EmptyDict, node, analysis)

\* phil_fisher.py 166, charlie_munger.py 155: the node stores its analysis
\* under its own name in the mapping every node shares
StoreSignals(signals, node, analysis) == Put(signals, node, analysis)

\* start_node (graph.py 17)
RunStartNode ==
    /\ Eligible("start_node")
    /\ node_state' = [node_state EXCEPT !["start_node"] = "done"]
    /\ UNCHANGED <<run_cfg, analyst_signals, produced, remote_calls,
                   governor_calls>>
    /\ UNCHANGED <<rlVars, llmVars, gVars, apiVars>>

\* the executor hands the state to an analyst node
AgentStart(n) ==
    /\ n \in RunTaskNodes
    /\ Eligible(n)
    /\ node_state' = [node_state EXCEPT ![n] = "running"]
    /\ UNCHANGED <<run_cfg, analyst_signals, produced, remote_calls,
                   governor_calls>>
    /\ UNCHANGED <<rlVars, llmVars, gVars, apiVars>>

\* phil_fisher.py 48-170, charlie_munger.py 33-160: one call_llm per
\* ticker, then the analysis is stored and the node returns
AgentFinish(n, outcome) ==
    /\ n \in RunTaskNodes
    /\ node_state[n] = "running"
    /\ LET tks     == SeqToSet(run_cfg.tickers)
           analysis == [tk \in tks |-> TickerEntry(outcome[tk].value)]
           calls == [tk \in tks |-> outcome[tk].invokes]
       IN  IF \E tk \in tks : outcome[tk].value.kind = "raise"
           THEN \* the exception leaves the node before anything is stored
                /\ node_state' = [node_state EXCEPT ![n] = "raised"]
                /\ UNCHANGED <<analyst_signals, produced, remote_calls,
                               governor_calls>>
           ELSE /\ analyst_signals' =
                      StoreSignals(analyst_signals, n, analysis)
                /\ produced' = Put(produced, n,
                       [analysis  |-> analysis,
                        exhausted |-> {tk \in tks : outcome[tk].exhausted}])
                /\ remote_calls' = Put(remote_calls, n,
                       calls[run_cfg.tickers[1]]
                       + (IF Len(run_cfg.tickers) > 1
                          THEN calls[run_cfg.tickers[2]] ELSE 0))
                /\ governor_calls' =
                      Put(governor_calls, n, Len(run_cfg.tickers))
                /\ node_state' = [node_state EXCEPT ![n] = "done"]
    /\ UNCHANGED run_cfg
    /\ UNCHANGED <<rlVars, llmVars, gVars, apiVars>>

\* risk_management_agent and portfolio_manager (graph.py 56-67)
AggregatorStart(n) ==
    /\ n \in Aggregators
    /\ Eligible(n)
    /\ node_state' = [node_state EXCEPT ![n] = "running"]
    /\ UNCHANGED <<run_cfg, analyst_signals, produced, remote_calls,
                   governor_calls>>
    /\ UNCHANGED <<rlVars, llmVars, gVars, apiVars>>

AggregatorFinish(n) ==
    /\ n \in Aggregators
    /\ node_state[n] = "running"
    /\ node_state' = [node_state EXCEPT ![n] = "done"]
    /\ UNCHANGED <<run_cfg, analyst_signals, produced, remote_calls,
                   governor_calls>>
    /\ UNCHANGED <<rlVars, llmVars, gVars, apiVars>>

\* run_graph's initial state (graph.py 98-118) on the graph create_graph
\* built for the first n analysts
InitRun ==
    /\ \E n \in 0..Len(AnalystOrder), m \in 1..Len(Tickers) :
          /\ n * m <= MaxWork
          /\ request = SubSeq(AnalystOrder, 1, n)
          /\ \E llm \in RunModels :
                run_cfg = [tickers |-> SubSeq(Tickers, 1, m), llm |-> llm]
    /\ g_pc = "built"
    /\ selected_agents = FilterAgents(request)
    /\ nodes = GraphNodes(FilterAgents(request))
    /\ edges = GraphEdges(FilterAgents(request))
    /\ node_state = [x \in nodes |-> "pending"]
    /\ analyst_signals = EmptyDict
    /\ produced = EmptyDict
    /\ remote_calls = EmptyDict
    /\ governor_calls = EmptyDict

NextRun ==
    \/ RunStartNode
    \/ \E n \in nodes : AgentStart(n)
    \/ \E n \in nodes :
          \E outcome \in [SeqToSet(run_cfg.tickers) -> Outcomes[run_cfg.llm]] :
             AgentFinish(n, outcome)
    \/ \E n \in nodes : AggregatorStart(n)
    \/ \E n \in nodes : AggregatorFinish(n)

\* what call_llm returns for each script of answers
OutcomeOf ==
    [llm \in RunModels |-> [sc \in Scripts(llm) |-> call_llm(llm, sc)]]

\* the largest number of calls of a run with a stubbed provider
MaxStubWork == 3

\* A run whose provider is a stub: run_cfg.stub fixes, per task node and
\* ticker, the answers the provider gives to the attempts of that call.
\* The limiter is in a state an earlier run has left behind.
InitStub ==
    /\ \E n \in 1..MaxStubWork, m \in 1..Len(Tickers) :
          /\ n * m <= MaxStubWork
          /\ request = SubSeq(AnalystOrder, 1, n)
          /\ \E llm \in RunModels :
             \E stub \in [{NodeName(request[i]) : i \in 1..n} ->
                             [SeqToSet(SubSeq(Tickers, 1, m)) -> Scripts(llm)]] :
                run_cfg = [tickers |-> SubSeq(Tickers, 1, m), llm |-> llm,
                           stub |-> stub]
    /\ g_pc = "built"
    /\ selected_agents = FilterAgents(request)
    /\ nodes = GraphNodes(FilterAgents(request))
    /\ edges = GraphEdges(FilterAgents(request))
    /\ node_state = [x \in nodes |-> "pending"]
    /\ analyst_signals = EmptyDict
    /\ produced = EmptyDict
    /\ remote_calls = EmptyDict
    /\ governor_calls = EmptyDict
    /\ clock = StartTime
    /\ \E L \in LimiterStates :
          last_call_time = L.last_call_time /\ call_count = L.call_count
    /\ lock = NoThread
    /\ frame = EmptyDict
    /\ rl_cfg = NoValue

\* what the calls of node n return under the stub
StubOutcome(n) ==
    [tk \in SeqToSet(run_cfg.tickers) |->
        OutcomeOf[run_cfg.llm][run_cfg.stub[n][tk]]]

NextStub ==
    \/ RunStartNode
    \/ \E n \in nodes : AgentStart(n)
    \/ \E n \in nodes \cap RunTaskNodes : AgentFinish(n, StubOutcome(n))
    \/ \E n \in nodes : AggregatorStart(n)
    \/ \E n \in nodes : AggregatorFinish(n)

(***************************************************************************)
(* tools/api.py: _make_api_request (31-62) and the functions that fetch    *)
(* the data of a ticker (147-804).  A value is [kind, v]: a response with  *)
(* its status code, a list or a frame with its number of rows, a float,    *)
(* None, or the exception that left the function.  The upstream (Yahoo     *)
(* Finance, NewsAPI) either has data, has none, or fails.                  *)
(***************************************************************************)
\* the largest max_retries explored (the default of line 31 is 3)
MaxApiRetries == 3

Response(status) == [kind |-> "response", v |-> status]

None == [kind |-> "None", v |-> 0]

List(n) == [kind |-> "list", v |-> n]

Frame(n) == [kind |-> "frame", v |-> n]

Float == [kind |-> "float", v |-> 1]

Exc(name) == [kind |-> name, v |-> 0]

IsException(r) == r.kind \in {"KeyError", "ConnectionError"}

\* the status codes a server answers with
StatusCodes == {200, 404, 429, 500}

ApiOp(op, n) == [op |-> op, n |-> n]

\* variant of RetryAfter that retries every 429
RetryAfterAlways(status, k, max_retries) == status = 429

\* line 54: `response.status_code == 429 and attempt < max_retries`
RetryAfter(status, k, max_retries) == status = 429 /\ k < max_retries

\* line 56: delay = 60 + (30 * attempt)
BackoffDelay(k) == 60 + 30 * k

\* lines 48-62: one pass of the loop; requests.get or requests.post
\* answers with a status code
ApiRequest(status) ==
    /\ api_pc = "loop"
    /\ api_attempt < api_cfg.max_retries + 1
    /\ IF RetryAfter(status, api_attempt, api_cfg.max_retries)
       THEN /\ api_log' = api_log \o <<ApiOp(api_cfg.method, status),
                                       ApiOp("sleep", BackoffDelay(api_attempt))>>
            /\ api_attempt' = api_attempt + 1
            /\ UNCHANGED <<api_pc, api_ret>>
       ELSE /\ api_log' = Append(api_log, ApiOp(api_cfg.method, status))
            /\ api_ret' = Response(status)
            /\ api_pc' = "returned"
            /\ UNCHANGED api_attempt
    /\ UNCHANGED api_cfg
    /\ UNCHANGED <<rlVars, llmVars, gVars, runVars>>

\* lines 49-52: requests.get or requests.post raises (no connection); no
\* try is around it
ApiRequestFails ==
    /\ api_pc = "loop"
    /\ api_attempt < api_cfg.max_retries + 1
    /\ api_log' = Append(api_log, ApiOp(api_cfg.method, 0))
    /\ api_ret' = Exc("ConnectionError")
    /\ api_pc' = "raised"
    /\ UNCHANGED <<api_cfg, api_attempt>>
    /\ UNCHANGED <<rlVars, llmVars, gVars, runVars>>

\* line 48: range(max_retries + 1) is used up; the function ends without
\* a return statement
ApiLoopEnd ==
    /\ api_pc = "loop"
    /\ api_attempt >= api_cfg.max_retries + 1
    /\ api_ret' = None
    /\ api_pc' = "returned"
    /\ UNCHANGED <<api_cfg, api_attempt, api_log>>
    /\ UNCHANGED <<rlVars, llmVars, gVars, runVars>>

\* what the upstream of a function does
Upstreams == {"data", "empty", "fails"}

\* the rows an upstream with data delivers
Rows == 2

\* lines 147-182
get_prices(cfg) ==
    IF cfg.cached THEN List(Rows)                   \* lines 152-153
    ELSE IF cfg.upstream = "fails" THEN List(0)     \* lines 180-182
    ELSE IF cfg.upstream = "empty" THEN List(0)     \* lines 160-161
    ELSE List(Rows)

\* lines 185-279
get_financial_metrics(cfg) ==
    IF cfg.cached THEN List(1)                      \* lines 195-196
    ELSE IF cfg.upstream = "fails" THEN List(0)     \* lines 277-279
    ELSE IF cfg.upstream = "empty" THEN List(0)     \* lines 203-204
    ELSE List(1)

\* lines 282-655: everything is inside the try
search_line_items(cfg) ==
    IF cfg.upstream = "fails" THEN List(0)          \* lines 651-655
    ELSE IF cfg.upstream = "empty" THEN List(0)
    ELSE List(Rows)

\* lines 658-682: nothing is fetched
get_insider_trades(cfg) ==
    IF cfg.cached THEN List(Rows) ELSE List(0)

\* lines 685-759
get_company_news(cfg) ==
    IF cfg.cached THEN List(Rows)                   \* lines 695-696
    ELSE IF ~cfg.api_key THEN List(0)               \* lines 699-702
    ELSE IF cfg.upstream = "fails" THEN List(0)     \* lines 719-721, 757-759
    ELSE IF cfg.upstream = "empty" THEN List(0)     \* line 725
    ELSE List(Rows)

\* lines 762-786
get_market_cap(cfg) ==
    IF cfg.upstream = "data" THEN Float ELSE None

\* lines 789-798: a frame built from no rows has no column "time", and
\* df["time"] raises KeyError
prices_to_df(prices) ==
    IF prices.v = 0 THEN Exc("KeyError") ELSE Frame(prices.v)

\* lines 801-804
get_price_data(cfg) == prices_to_df(get_prices(cfg))

DataFunctions ==
    {"get_prices", "get_price_data", "get_financial_metrics",
     "search_line_items", "get_insider_trades", "get_company_news",
     "get_market_cap"}

DataFunction(cfg) ==
    CASE cfg.fn = "get_prices"            -> get_prices(cfg)
      [] cfg.fn = "get_price_data"        -> get_price_data(cfg)
      [] cfg.fn = "get_financial_metrics" -> get_financial_metrics(cfg)
      [] cfg.fn = "search_line_items"     -> search_line_items(cfg)
      [] cfg.fn = "get_insider_trades"    -> get_insider_trades(cfg)
      [] cfg.fn = "get_company_news"      -> get_company_news(cfg)
      [] cfg.fn = "get_market_cap"        -> get_market_cap(cfg)

\* one call of a function that fetches data
DataCall ==
    /\ api_pc = "call"
    /\ api_ret' = DataFunction(api_cfg)
    /\ api_pc' = IF IsException(api_ret') THEN "raised" ELSE "returned"
    /\ UNCHANGED <<api_cfg, api_attempt, api_log>>
    /\ UNCHANGED <<rlVars, llmVars, gVars, runVars>>

ApiCfg(fn, max_retries, method, cached, upstream, api_key) ==
    [fn |-> fn, max_retries |-> max_retries, method |-> method,
     cached |-> cached, upstream |-> upstream, api_key |-> api_key]

InitApi ==
    /\ \/ \E r \in (0 - 1)..MaxApiRetries, method \in {"GET", "POST"} :
             /\ api_cfg = ApiCfg("_make_api_request", r, method, FALSE,
                                 "data", TRUE)
             /\ api_pc = "loop"
       \/ \E fn \in DataFunctions, cached \in BOOLEAN, up \in Upstreams,
             key \in BOOLEAN :
             /\ api_cfg = ApiCfg(fn, 0, "GET", cached, up, key)
             /\ api_pc = "call"
    /\ api_attempt = 0
    /\ api_ret = NoValue
    /\ api_log = <<>>

NextApi ==
    \/ \E status \in StatusCodes : ApiRequest(status)
    \/ ApiRequestFails
    \/ ApiLoopEnd
    \/ DataCall

(***************************************************************************)
(* The parts of the state a specification does not use stay as they are    *)
(* when nothing has been called.                                           *)
(***************************************************************************)
IdleLLM ==
    /\ llm_cfg = NoValue
    /\ llm_pc = "idle"
    /\ attempt = 0
    /\ ret = NoValue
    /\ raised = FALSE
    /\ ops = <<>>

IdleGraph ==
    /\ request = <<>>
    /\ g_pc = "idle"
    /\ selected_agents = <<>>
    /\ nodes = {}
    /\ edges = {}

IdleRun ==
    /\ run_cfg = NoValue
    /\ node_state = EmptyDict
    /\ analyst_signals = EmptyDict
    /\ produced = EmptyDict
    /\ remote_calls = EmptyDict
    /\ governor_calls = EmptyDict

IdleRL ==
    /\ InitLimiter
    /\ rl_cfg = NoValue
    /\ frame = EmptyDict

IdleApi ==
    /\ api_cfg = NoValue
    /\ api_pc = "idle"
    /\ api_attempt = 0
    /\ api_ret = NoValue
    /\ api_log = <<>>

\* One invocation of call_llm
InitSpecLLM == InitLLM /\ IdleGraph /\ IdleRun /\ IdleApi

SpecLLM == InitSpecLLM /\ [][NextLLM]_vars

\* create_graph on the lists a caller may pass
InitSpecGraph == IdleRL /\ IdleLLM /\ InitGraph /\ IdleRun /\ IdleApi

SpecGraph == InitSpecGraph /\ [][NextGraph]_vars

\* One run of a compiled graph
InitSpecRun == IdleRL /\ IdleLLM /\ InitRun /\ IdleApi

SpecRun == InitSpecRun /\ [][NextRun]_vars

\* One run under a scheduler that goes on while a node can start or finish
SpecRunFair == InitSpecRun /\ [][NextRun]_vars /\ WF_vars(NextRun)

\* One run with a stubbed provider
InitSpecStub == IdleLLM /\ InitStub /\ IdleApi

SpecStub == InitSpecStub /\ [][NextStub]_vars

\* One call of a function of tools/api.py
InitSpecApi == IdleRL /\ IdleLLM /\ IdleGraph /\ IdleRun /\ InitApi

SpecApi == InitSpecApi /\ [][NextApi]_vars

\* The rate limiter under its callers
InitSpecRL == InitRL /\ IdleLLM /\ IdleGraph /\ IdleRun /\ IdleApi

SpecRL == InitSpecRL /\ [][NextRL]_vars

\* The rate limiter when time passes and a thread that can go on, does
LimiterStep ==
    \E t \in DOMAIN frame : EnterLock(t) \/ WakeWindow(t) \/ WakeSpacing(t)

\* the scenarios in which progress is checked: one caller bursting into
\* the threshold, and two concurrent callers of a limited and a free provider
BurstScenario ==
    [threads |-> {1},
     calls   |-> {<<"GOOGLE", "gemini">>},
     horizon |-> StartTime + MaxBurst]

PairScenario ==
    [threads |-> {1, 2},
     calls   |-> {<<"GOOGLE", "gemini">>, <<"OPENAI", "gpt-4.1">>},
     horizon |-> StartTime + MaxShort]

InitSpecRLFair ==
    /\ InitLimiter
    /\ rl_cfg \in {BurstScenario, PairScenario}
    /\ frame = [t \in rl_cfg.threads |-> IdleFrame]
    /\ IdleLLM /\ IdleGraph /\ IdleRun /\ IdleApi

SpecRLFair ==
    InitSpecRLFair /\ [][NextRL]_vars /\ WF_vars(Tick) /\ WF_vars(LimiterStep)

(***************************************************************************)
(* Claims about call_llm, checked under SpecLLM.                           *)
(***************************************************************************)
\* the llm.invoke calls made so far, in order
Invokes == SelectSeq(ops, LAMBDA o : o.op = "invoke")

\* every attempt of the budget was made and failed
AllAttemptsFailed ==
    /\ Len(Invokes) = llm_cfg.max_retries
    /\ \A i \in DOMAIN Invokes : Invokes[i].what # "ok"

\* C1: when every one of the max_retries attempts has failed (quota error,
\* other exception or no parsable block, any provider), call_llm returns
\* exactly the value of the caller's default_factory().
C1_DefaultOnExhaustion ==
    (llm_pc = "done" /\ llm_cfg.has_factory /\ AllAttemptsFailed)
        => (~raised /\ ret = default_factory)

\* C5: every llm.invoke, first attempt or retry, is immediately preceded by
\* its own wait_if_needed.
C5_EveryCallAcquires ==
    \A i \in DOMAIN ops :
        ops[i].op = "invoke" => (i > 1 /\ ops[i - 1].op = "acquire")

C7_AlwaysSchemaValue ==
    llm_pc = "done"
        => /\ ~raised
           /\ ret.kind = "model"
           /\ Construct(SignalSchema, ret.fields) = ret

W7_MixedFailures ==
    /\ llm_pc = "done"
    /\ {"badschema", "quota", "noblock"}
          \subseteq {Invokes[i].what : i \in DOMAIN Invokes}

\* C8: at most max_retries llm.invoke calls; the first attempt with a valid
\* result ends the invocation with that result; after a failed attempt
\* another one follows while fewer than max_retries have been made.
C8_AtMostMaxRetries ==
    /\ Len(Invokes) <= llm_cfg.max_retries
    /\ \A i \in DOMAIN Invokes :
          Invokes[i].what = "ok"
              => /\ i = Len(Invokes)
                 /\ ops[Len(ops)] = Invokes[i]
                 /\ llm_pc = "done" /\ ~raised
                 /\ ret.kind = "model" /\ ret.fields = StubFields
    /\ (llm_pc = "done" /\ ~llm_cfg.llm_none
            /\ Invokes[Len(Invokes)].what # "ok")
          => Len(Invokes) = llm_cfg.max_retries
    /\ llm_pc = "loop"
          => (Len(Invokes) = attempt /\ attempt < llm_cfg.max_retries)

W8_SuccessOnLastAttempt ==
    /\ llm_pc = "done"
    /\ Len(Invokes) = 3
    /\ Invokes[1].what = "error" /\ Invokes[2].what = "noblock"
    /\ Invokes[3].what = "ok"

\* C9: between a failed attempt k and the next attempt the wait is
\* min(30 + 10k, 60) s after a quota error, for every provider, and 2 s
\* after any other failure, a parse failure included.
C9_WaitByErrorClass ==
    \A i \in DOMAIN ops :
        (/\ ops[i].op = "invoke"
         /\ ops[i].what # "ok"
         /\ \E j \in DOMAIN ops : j > i /\ ops[j].op = "invoke")
            => /\ ops[i + 1].op = "sleep"
               /\ ops[i + 1].n =
                     IF ops[i].what = "quota"
                     THEN Min(Sec(30) + (ops[i].n * Sec(10)), Sec(60))
                     ELSE Sec(2)

(***************************************************************************)
(* Claims about a run of the graph, checked under SpecRun.                 *)
(***************************************************************************)
Running(n) == n \in DOMAIN node_state /\ node_state[n] = "running"

RunCompleted ==
    /\ "portfolio_manager" \in DOMAIN node_state
    /\ node_state["portfolio_manager"] = "done"

\* C2: after a completed run over distinct registered ids, analyst_signals
\* has exactly one entry per requested task and none for any other; a task
\* whose provider calls all failed has its entry, equal to the default
\* payload of its default_factory.
C2_OneEntryPerTask ==
    RunCompleted
        => /\ DOMAIN analyst_signals = RunTaskNodes
           /\ \A n \in RunTaskNodes :
                 \A tk \in produced[n].exhausted :
                    analyst_signals[n][tk] = default_factory.fields

\* C3: in the parallel topology, whatever the order in which the task
\* nodes complete and store their analyses, a completed node's entry is
\* there with the value that node produced, and when the risk aggregator
\* starts the mapping holds exactly the keys of all the task nodes.
C3_NoEntryLost ==
    UseParallel(Len(selected_agents))
        => /\ \A n \in RunTaskNodes :
                 (n \in DOMAIN node_state /\ node_state[n] = "done")
                    => /\ n \in DOMAIN analyst_signals
                       /\ analyst_signals[n] = produced[n].analysis
           /\ Running("risk_management_agent")
                 => DOMAIN analyst_signals = RunTaskNodes

W3_SixMergedAtRiskStart ==
    /\ Running("risk_management_agent")
    /\ Cardinality(RunTaskNodes) = 6
    /\ Cardinality(DOMAIN analyst_signals) = 6
    /\ Cardinality({analyst_signals[n] : n \in DOMAIN analyst_signals}) >= 3

Started(n) == n \in DOMAIN node_state /\ node_state[n] # "pending"

\* C15: in a run of a parallel graph, in every completion order,
\* risk_management_agent starts only when every selected task node has
\* completed and stored its analysis, portfolio_manager starts only when
\* risk_management_agent has completed, and what the risk aggregator finds
\* is the analyses the task nodes produced, whatever the order.
C15_JoinBeforeAggregate ==
    UseParallel(Len(selected_agents))
        => /\ Started("risk_management_agent")
                 => \A n \in RunTaskNodes :
                       node_state[n] = "done" /\ n \in DOMAIN analyst_signals
           /\ Started("portfolio_manager")
                 => node_state["risk_management_agent"] = "done"
           /\ Running("risk_management_agent")
                 => analyst_signals =
                       [n \in RunTaskNodes |-> produced[n].analysis]

W15_PortfolioAfterJoin ==
    /\ Running("portfolio_manager")
    /\ Cardinality(RunTaskNodes) = 3
    /\ Len(run_cfg.tickers) = 2
    /\ \E n \in RunTaskNodes : produced[n].exhausted # {}

\* C16: in a run of a chained graph (more than 6 tasks) the task nodes run
\* one at a time in caller order: a task node has not started, and has
\* issued no provider call, before the one ahead of it has completed.
C16_ChainedOneAtATime ==
    ~UseParallel(Len(selected_agents))
        => /\ Cardinality({n \in RunTaskNodes : node_state[n] = "running"}) <= 1
           /\ \A i \in 1..(Len(selected_agents) - 1) :
                 LET this == NodeName(selected_agents[i])
                     next == NodeName(selected_agents[i + 1])
                 IN  node_state[this] # "done"
                        => /\ node_state[next] = "pending"
                           /\ next \notin DOMAIN remote_calls

W16_FourthInChain ==
    /\ Len(selected_agents) = 7
    /\ node_state[NodeName(selected_agents[4])] = "running"
    /\ \A i \in 1..3 : node_state[NodeName(selected_agents[i])] = "done"
    /\ \A i \in 5..7 : node_state[NodeName(selected_agents[i])] = "pending"

\* C17: every run terminates with the output of portfolio_manager; no
\* transient error, quota error or parse failure of a task, in any
\* combination over the tasks, ends the run before that.
C17_RunTerminates == [](~Aborted) /\ <>RunCompleted

W17_CompletedWithFailures ==
    /\ RunCompleted
    /\ Cardinality(RunTaskNodes) >= 2
    /\ \A n \in RunTaskNodes : produced[n].exhausted # {}

(***************************************************************************)
(* Claims about the rate limiter, checked under SpecRL.                    *)
(***************************************************************************)
\* C4: for every key and every sequence of wait_if_needed calls, concurrent
\* ones included, the call counter of the key never exceeds the threshold
\* of 9: a call finding it at the threshold waits for the window to reset.
C4_CounterWithinThreshold ==
    \A k \in DOMAIN call_count : call_count[k] <= Threshold

(***************************************************************************)
(* Claims about create_graph, checked under SpecGraph.                     *)
(***************************************************************************)
\* the registered ids of the request, in caller order
Filtered == SelectSeq(request, LAMBDA a : a \in ANALYST_CONFIG)

TaskNodes == {NodeName(Filtered[i]) : i \in DOMAIN Filtered}

Preds(n) == {e[1] : e \in {x \in edges : x[2] = n}}

Succs(n) == {e[2] : e \in {x \in edges : x[1] = n}}

ChainOf(sel) ==
    { <<"start_node", NodeName(sel[1])>> }
    \cup { <<NodeName(sel[i]), NodeName(sel[i + 1])>> : i \in 1..(Len(sel) - 1) }
    \cup { <<NodeName(sel[Len(sel)]), "risk_management_agent">>,
           <<"risk_management_agent", "portfolio_manager">>,
           <<"portfolio_manager", END>> }

\* C11: when the filtered list has n >= 7 entries, the graph has exactly the
\* edges start_node -> t1 -> ... -> tn -> risk_management_agent ->
\* portfolio_manager -> END over the selected tasks in caller order, and the
\* task nodes form one chain of length n: n task nodes, each with one
\* predecessor and one successor, none of them its own successor.
C11_ChainedTopology ==
    (g_pc = "built" /\ Len(Filtered) >= 7)
        => /\ edges = ChainOf(Filtered)
           /\ Cardinality(TaskNodes) = Len(Filtered)
           /\ \A t \in TaskNodes :
                 /\ Cardinality(Preds(t)) = 1
                 /\ Cardinality(Succs(t)) = 1
                 /\ <<t, t>> \notin edges

\* C12: when no requested id is registered (empty request included), the
\* graph has exactly the edges start_node -> risk_management_agent ->
\* portfolio_manager -> END and no task node.
C12_EmptyTopology ==
    (g_pc = "built" /\ Filtered = <<>>)
        => /\ edges = { <<"start_node", "risk_management_agent">>,
                        <<"risk_management_agent", "portfolio_manager">>,
                        <<"portfolio_manager", END>> }
           /\ nodes = {"start_node", "risk_management_agent",
                       "portfolio_manager"}

W12_OnlyUnknownIds ==
    /\ g_pc = "built"
    /\ Len(request) >= 2
    /\ Filtered = <<>>
    /\ <<"start_node", "risk_management_agent">> \in edges

\* a list without its repetitions, first occurrences in order
RECURSIVE Dedup(_)
Dedup(q) ==
    IF q = <<>> THEN <<>>
    ELSE LET front == Dedup(SubSeq(q, 1, Len(q) - 1))
             last  == q[Len(q)]
         IN  IF last \in SeqToSet(front) THEN front ELSE Append(front, last)

\* C13: create_graph reduces the request to its registered ids without
\* repetitions, in the order of first occurrence, and chooses the topology
\* by that list: the graph of a request with a repeated id is the graph of
\* the request without the repetition.
C13_Deduplicated ==
    g_pc = "built"
        => /\ selected_agents = Dedup(Filtered)
           /\ nodes = GraphNodes(Dedup(Filtered))
           /\ edges = GraphEdges(Dedup(Filtered))

\* the nodes reached from the nodes of S along the edges, in at most k steps
RECURSIVE ReachedFrom(_, _)
ReachedFrom(S, k) ==
    IF k = 0 THEN S
    ELSE LET next == S \cup {e[2] : e \in {x \in edges : x[1] \in S}}
         IN  IF next = S THEN S ELSE ReachedFrom(next, k - 1)

OnCycle(n) == n \in ReachedFrom(Succs(n), Cardinality(nodes) + 1)

\* C14: for every request (unknown and repeated ids included) the graph is
\* acyclic, start_node is its only node without predecessor, and every
\* other node has at least one predecessor.
C14_AcyclicRooted ==
    g_pc = "built"
        => /\ \A n \in nodes : ~OnCycle(n)
           /\ Preds("start_node") = {}
           /\ \A n \in nodes \ {"start_node"} : Preds(n) # {}


\* a call of thread t is in progress
Waiting(t) ==
    /\ t \in DOMAIN frame
    /\ frame[t].pc \in {"lock", "window_sleep", "spacing_sleep"}

Returned(t) == t \in DOMAIN frame /\ frame[t].pc = "returned"

FrameKey(f) == Key(f.provider, f.model)

\* every call in progress returns
EveryCallReturns == \A t \in ShortScenario.threads : Waiting(t) ~> Returned(t)

\* C18 as stated: every wait_if_needed call returns after a finite delay,
\* and has then been counted: its key has a counter of at least one and a
\* last-call time.
C18_EveryCallCounted ==
    /\ EveryCallReturns
    /\ [](\A t \in DOMAIN frame :
             Returned(t)
                => /\ FrameKey(frame[t]) \in DOMAIN call_count
                   /\ call_count[FrameKey(frame[t])] >= 1
                   /\ FrameKey(frame[t]) \in DOMAIN last_call_time)

\* the step in which the call of thread t for a rate-limited provider returns
LimitedReturn(t) == Waiting(t) /\ frame'[t].pc = "returned"

\* C18 as amended: every wait_if_needed call returns after a finite delay;
\* a call for a rate-limited (Google) provider is counted exactly once on
\* its return (counter of its key one more than before, or one after a
\* reset; last-call time set to the time of return) and no counter grows
\* otherwise; a call for any other provider returns at once, uncounted.
C18_LimitedCallsCounted ==
    /\ EveryCallReturns
    /\ [][/\ \A t \in DOMAIN frame :
               LimitedReturn(t)
                  => LET key == FrameKey(frame[t])
                     IN  /\ call_count'[key]
                               \in {Get(call_count, key, 0) + 1, 1}
                         /\ last_call_time'[key] = clock'
          /\ \A k \in DOMAIN call_count' :
               (\A t \in DOMAIN frame :
                   ~(LimitedReturn(t) /\ FrameKey(frame[t]) = k))
                  => call_count'[k] <= Get(call_count, k, 0)
          /\ \A t \in DOMAIN frame :
               (frame'[t] # frame[t] /\ ~IsLimited(frame'[t].provider))
                  => /\ frame'[t].pc = "returned"
                     /\ call_count' = call_count
                     /\ last_call_time' = last_call_time
         ]_vars

W18_BothKindsReturned ==
    /\ Returned(1) /\ Returned(2)
    /\ frame[1].provider = "GOOGLE" /\ frame[2].provider = "OPENAI"
    /\ call_count[FrameKey(frame[1])] = 2
    /\ FrameKey(frame[2]) \notin DOMAIN call_count

\* the step in which thread t passes `with self.lock` and reads the time
Entering(t) ==
    /\ t \in DOMAIN frame
    /\ frame[t].pc = "lock"
    /\ frame'[t].pc # "lock"

\* more than a full window has passed since the recorded start of the
\* window of the key, or the key was never counted
WindowOver(key) ==
    \/ key \notin DOMAIN call_count
    \/ /\ ResetKey(key) \in DOMAIN last_call_time
       /\ clock - last_call_time[ResetKey(key)] > Sec(60)

\* C19: a call that takes the lock when more than a full window (60 s) has
\* passed since the recorded window start, or that is the first ever for
\* its key, is admitted at once, without any sleep, whatever the counter
\* was: the window start becomes now and the counter is 1 afterwards.
C19_FreshWindowNoDelay ==
    [][\A t \in DOMAIN frame :
          (Entering(t) /\ WindowOver(FrameKey(frame[t])))
             => LET key == FrameKey(frame[t])
                IN  /\ frame'[t].pc = "returned"
                    /\ clock' = clock
                    /\ key \in DOMAIN call_count'
                    /\ call_count'[key] = 1
                    /\ {key, ResetKey(key)} \subseteq DOMAIN last_call_time'
                    /\ last_call_time'[ResetKey(key)] = clock
                    /\ last_call_time'[key] = clock
      ]_vars

W19_AdmittedAfterWindow ==
    /\ Returned(1)
    /\ FrameKey(frame[1]) = "GOOGLE_gemini"
    /\ clock = StartTime + Sec(60) + 1
    /\ call_count["GOOGLE_gemini"] = 1
    /\ last_call_time["GOOGLE_gemini"] = clock
    /\ last_call_time[ResetKey("GOOGLE_gemini")] = clock

\* the spacing the claim states, in ticks of half a second
StatedDelay(c) == IF c >= 6 THEN 12 ELSE IF c >= 3 THEN 4 ELSE 1

\* C20: when a call of a rate-limited key returns having found the counter
\* at c > 0, the time recorded for it is at least min_delay(c) after the
\* time recorded for the call before it, with min_delay(c) 0.5 s for c in
\* 1..2, 2 s for c in 3..5 and 6 s from 6 on; a call that finds the counter
\* at 0 does not sleep for spacing.  This holds with concurrent callers.
C20_GraduatedSpacing ==
    [][/\ \A c \in 1..(Threshold + 1) : MinDelay(c) = StatedDelay(c)
       /\ \A t \in DOMAIN frame :
            LimitedReturn(t)
               => LET key == FrameKey(frame[t])
                      c   == call_count'[key] - 1
                  IN  c > 0
                         => /\ key \in DOMAIN last_call_time
                            /\ last_call_time'[key] - last_call_time[key]
                                  >= StatedDelay(c)
       /\ \A t \in DOMAIN frame :
            (frame[t].pc # "spacing_sleep" /\ frame'[t].pc = "spacing_sleep")
               => call_count'[FrameKey(frame'[t])] > 0
      ]_vars

W20_SeventhCallSpaced ==
    /\ Returned(1)
    /\ FrameKey(frame[1]) = "GOOGLE_gemini"
    /\ call_count["GOOGLE_gemini"] = 7
    /\ clock = StartTime + Sec(13)
    /\ last_call_time["GOOGLE_gemini"] = clock

\* the thread whose call moves in this step
Moves(t) == t \in DOMAIN frame /\ frame'[t] # frame[t]

\* C21: a wait_if_needed call for a provider other than GOOGLE (whatever
\* the case of its letters) returns at once, without delay and without the
\* lock, and changes no counter, window start or last-call time, whatever
\* the state of the limited keys and also while another caller sleeps.
C21_UnlimitedPassThrough ==
    [][\A t \in DOMAIN frame :
          (Moves(t) /\ Upper(frame'[t].provider) # "GOOGLE")
             => /\ frame'[t].pc = "returned"
                /\ clock' = clock
                /\ lock' = lock
                /\ call_count' = call_count
                /\ last_call_time' = last_call_time
      ]_vars

W21_PassedASleeper ==
    /\ Returned(2)
    /\ frame[2].provider = "OPENAI"
    /\ 1 \in Sleepers
    /\ lock = 1
    /\ clock < frame[1].wake

\* the threads between `with self.lock` and the end of wait_if_needed
Inside == Sleepers

\* C22: the reading, checking and updating of a key's counter and times is
\* one critical section.  At most one caller is inside it, and it holds the
\* lock; while it is inside no other caller changes a counter or a time; no
\* increment is lost: the caller leaves the counter one above the value it
\* found, so no two callers are admitted on the same counter value.
C22_OneCriticalSection ==
    /\ [](/\ Cardinality(Inside) <= 1
          /\ \A t \in Inside : lock = t
          /\ Inside = {} => lock = NoThread)
    /\ [][/\ \A t \in Inside :
               \A u \in DOMAIN frame \ {t} :
                  Moves(u) => /\ call_count' = call_count
                              /\ last_call_time' = last_call_time
          /\ \A t \in Inside :
               frame[t].pc = "spacing_sleep" /\ frame'[t].pc = "returned"
                  => call_count'[FrameKey(frame[t])]
                        = call_count[FrameKey(frame[t])] + 1
         ]_vars

W22_BlockedBehindSleeper ==
    /\ 1 \in Sleepers
    /\ lock = 1
    /\ Waiting(2)
    /\ frame[2].pc = "lock"
    /\ FrameKey(frame[2]) = FrameKey(frame[1])

\* the call of thread t would pass without any sleep were it let in now
NeedsNoDelay(t) ==
    wait_if_needed(TheLimiter, frame[t].provider, frame[t].model, clock).clock
        = clock

\* C23: the quota state is guarded key by key.  While a caller of key A
\* sleeps inside wait_if_needed, a caller of another key B whose own
\* counter asks for no delay is let in without waiting for A: no time
\* passes while it stands at the lock.
C23_PerKeyGuard ==
    [][\A a \in Sleepers :
          \A b \in DOMAIN frame :
             (/\ frame[b].pc = "lock"
              /\ FrameKey(frame[b]) # FrameKey(frame[a])
              /\ NeedsNoDelay(b))
                => clock' = clock
      ]_vars

\* the keys of the rate-limited calls of the scenario
LimitedKeys ==
    {Key(c[1], c[2]) : c \in {x \in rl_cfg.calls : Upper(x[1]) = "GOOGLE"}}

\* what the limiter holds for a key: counter, window start, last-call time
NotSet == 0 - 1

QuotaState(key, lct, cc) ==
    <<Get(cc, key, NotSet), Get(lct, ResetKey(key), NotSet),
      Get(lct, key, NotSet)>>

\* C30: the quota states of distinct (provider, model) keys are
\* independent: a wait_if_needed call for one key changes the counter,
\* window start and last-call time of that key only.
C30_KeysIndependent ==
    [][\A t \in DOMAIN frame :
          Moves(t)
             => \A k \in LimitedKeys \ {FrameKey(frame'[t])} :
                   QuotaState(k, last_call_time', call_count')
                      = QuotaState(k, last_call_time, call_count)
      ]_vars

\* the calls and the waits one invocation has logged
Sleeps == SelectSeq(ops, LAMBDA o : o.op = "sleep")

\* C29: call_llm waits only when another attempt follows: an invocation
\* that has returned logged no wait after its last attempt, and at most
\* max_retries - 1 waits in all, whatever the errors and the provider.
C29_WaitOnlyBeforeRetry ==
    llm_pc = "done" =>
        /\ Len(ops) > 0 => ops[Len(ops)].op # "sleep"
        /\ Len(Sleeps) <= llm_cfg.max_retries - 1

\* the configuration the claim of C26 expects for a call of a task
Metadata == llm_cfg.state.metadata

HasOverride ==
    /\ llm_cfg.agent_name # "portfolio_manager"
    /\ "request" \in DOMAIN Metadata
    /\ llm_cfg.agent_name \in DOMAIN Metadata["request"].agent_models

ExpectedModel ==
    IF HasOverride
    THEN Metadata["request"].agent_models[llm_cfg.agent_name][1]
    ELSE IF "model_name" \in DOMAIN Metadata /\ Metadata["model_name"] # ""
    THEN Metadata["model_name"]
    ELSE "gpt-4.1"

ExpectedProvider ==
    IF HasOverride
    THEN Metadata["request"].agent_models[llm_cfg.agent_name][2].s
    ELSE IF /\ "model_provider" \in DOMAIN Metadata
            /\ Metadata["model_provider"].s # ""
    THEN Metadata["model_provider"].s
    ELSE "OPENAI"

TaskCall ==
    /\ llm_pc \in {"loop", "done"}
    /\ llm_cfg.state.present
    /\ llm_cfg.agent_name # ""

\* C26: a call made for a task with the state of the run uses the model of
\* the task's override if the metadata carries one, else the model of the
\* run, else gpt-4.1 of OPENAI; portfolio_manager uses the model of the
\* run; neither name nor provider is empty, and the limiter was passed with
\* exactly that provider.
C26_ResolvedModel ==
    TaskCall =>
        /\ ModelName(llm_cfg) = ExpectedModel
        /\ ModelProvider(llm_cfg) = ExpectedProvider
        /\ ModelName(llm_cfg) # "" /\ ModelProvider(llm_cfg) # ""
        /\ Len(ops) > 0 /\ ops[1] = Op("acquire", 0, ExpectedProvider)

\* portfolio_manager called in a run whose request chooses another model
\* for it: the call uses the model of the run
W26_OverrideAndPortfolio ==
    /\ TaskCall
    /\ "request" \in DOMAIN Metadata
    /\ llm_cfg.agent_name \in DOMAIN Metadata["request"].agent_models
    /\ llm_cfg.agent_name = "portfolio_manager"
    /\ ModelName(llm_cfg) = "gemini"

(***************************************************************************)
(* Claims about tools/api.py, checked under SpecApi.                       *)
(***************************************************************************)
IsRequest(o) == o.op \in {"GET", "POST"}

Requests == SelectSeq(api_log, IsRequest)

Answered429(i) == IsRequest(api_log[i]) /\ api_log[i].n = 429

NothingFetched ==
    /\ api_pc \in {"returned", "raised"}
    /\ api_cfg.fn \in DataFunctions
    /\ ~api_cfg.cached
    /\ \/ api_cfg.upstream \in {"empty", "fails"}
       \/ api_cfg.fn = "get_company_news" /\ ~api_cfg.api_key

\* C25: a function that fetches data returns an empty list, an empty frame
\* or None, and raises nothing, when its upstream fails, has no data, or
\* the API key is missing.
C25_EmptyOnFailure ==
    NothingFetched =>
        /\ api_pc = "returned"
        /\ api_ret \in {List(0), Frame(0), None}

(***************************************************************************)
(* Claims about the calls and the results of a whole run.                  *)
(***************************************************************************)
RECURSIVE SumCalls(_)
SumCalls(S) ==
    IF S = {} THEN 0
    ELSE LET n == CHOOSE x \in S : TRUE
         IN  remote_calls[n] + SumCalls(S \ {n})

\* C27: a run of k <= 6 tasks in the parallel topology issues at most
\* k + 2 calls of the provider, one per task and one for each of the two
\* aggregators, whatever the tickers and the failures.
C27_CallsWithinBudget ==
    UseParallel(Len(selected_agents)) =>
        SumCalls(DOMAIN remote_calls) + Cardinality(Aggregators)
            <= Len(selected_agents) + 2

\* the mapping the inputs of a run determine
ExpectedSignals ==
    [n \in RunTaskNodes |->
        [tk \in SeqToSet(run_cfg.tickers) |->
            TickerEntry(call_llm(run_cfg.llm, run_cfg.stub[n][tk]).value)]]

=============================================================================
